---- MODULE Spec2Model ----
(***************************************************************************)
(* Model of src/app.js: a single-page movie browser.  One JavaScript      *)
(* thread runs event handlers (tasks) to completion; the continuations of  *)
(* the async functions searchMovies / loadTrending whose awaited promise   *)
(* was rejected synchronously (missing key, abort) run as microtasks       *)
(* before any other task.  Strings are tuples of one-character strings.    *)
(***************************************************************************)
EXTENDS Integers, Sequences, FiniteSets, TLC

\* ---------------------------------------------------------------- bounds
MaxCalls == 3          \* invocations of searchMovies / loadTrending
MaxInputs == 2         \* 'input' events on the search box
TickMs == 100          \* largest amount of time one Tick lets pass
MaxResults == 2        \* longest list handed to renderMovies directly

\* ------------------------------------------------------ program constants
DebounceDelay == 300   \* setTimeout(..., 300)
\* a load threshold above the save threshold
MinLoadLen_Eleven == 5 + 6
\* a load threshold that lets 5 characters through
MinLoadLen_Four == 2 + 2
\* the longest stored key that loadApiKey rejects
MinLoadLen == 5        \* key.length > 5

\* a save check that accepts keys of 6 characters
MinSaveLen_Six == 3 + 3

MinSaveLen == 10       \* key.length < 10

\* a live-search threshold that lets two characters through
MinLiveLen_Two == 1 + 1

MinLiveLen == 3        \* q.length >= 3

Null == "null"         \* a JavaScript null held in a record field

\* an optional string: JavaScript null, or a string value
None == [some |-> FALSE, v |-> <<>>]
Some(s) == [some |-> TRUE, v |-> s]

\* ---------------------------------------------------------------- strings
Rep(n, c) == [i \in 1..n |-> c]

IsSpace(c) == c = " "

RECURSIVE TrimStart(_)
TrimStart(s) ==
  IF s # <<>> /\ IsSpace(Head(s)) THEN TrimStart(Tail(s)) ELSE s

RECURSIVE TrimEnd(_)
TrimEnd(s) ==
  IF s # <<>> /\ IsSpace(s[Len(s)]) THEN TrimEnd(SubSeq(s, 1, Len(s) - 1)) ELSE s

\* String.prototype.trim
Trim(s) == TrimEnd(TrimStart(s))

\* encodeURIComponent on the characters the model uses
EncodeChar(c) == IF c = " " THEN "%20" ELSE c

encodeURIComponent(s) == [i \in 1..Len(s) |-> EncodeChar(s[i])]

\* a truthiness test that lets the empty string through
Truthy_EmptyPasses(v) == v \notin {"absent", Null}

\* JavaScript truthiness of a string-or-missing field
Truthy(v) == v \notin {"absent", Null, ""}

\* ----------------------------------------------------------- input spaces
\* values the user can put in the search box
QueryInputs ==
  { <<>>, <<" ">>, <<"a", "b", "c">>, <<" ", "a", "b", " ">> }

\* values the user can put in the API key field
KeyInputs ==
  { <<" ">> \o Rep(9, "k"), <<" ">> \o Rep(10, "k") }

\* values localStorage can hold for 'tmdb_api_key' at startup
StoredKeys == { Rep(5, "k"), Rep(6, "k") }

\* HTTP status codes a response can carry
StatusCodes == { 200, 401, 500 }

\* Response.ok
ResponseOk(status) == status >= 200 /\ status <= 299

\* records of the catalogue
MovieA == [id |-> "7", title |-> "Dune", name |-> "absent", poster_path |-> "/d.jpg"]
MovieB == [id |-> "absent", title |-> "absent", name |-> "absent", poster_path |-> Null]

\* response bodies: unparsable text, or a JSON value
Bodies ==
  { [t |-> "unparsable"],
    [t |-> "null"],
    [t |-> "number"],
    [t |-> "object", results |-> [t |-> "absent"]],
    [t |-> "object", results |-> [t |-> "string"]],
    [t |-> "object", results |-> [t |-> "list", items |-> <<>>]],
    [t |-> "object", results |-> [t |-> "list", items |-> <<MovieA, MovieB>>]] }

\* values Math.random().toString(36).slice(2) can take
RandSuffixes == { "r1" }


\* ------------------------------------------------------------------ state
VARIABLES
  booted,          \* init() has run
  storage,         \* localStorage['tmdb_api_key']
  apiKey,          \* state.apiKey
  abortController, \* state.abortController: 0 (null) or the index of a call
  calls,           \* invocations of searchMovies / loadTrending, in order
  apiKeyInput,     \* el.apiKeyInput.value
  searchInput,     \* el.searchInput.value
  settingsOpen,    \* el.settingsModal has no 'hidden' attribute
  focused,         \* the element holding focus
  busy,            \* aria-busy attribute of the .movies section
  grid,            \* content of el.moviesGrid
  gridBy,          \* index of the call that last wrote the grid (0: none)
  timers,          \* pending setTimeout timers
  debounceTimer,   \* closure variable debounceTimer: 0 (null) or a timer id
  nInputs,         \* 'input' events handled = timer ids handed out
  sinceInput,      \* time since the last 'input' event, up to the delay
  burst,           \* number of 'input' events in the current burst
  burstFires,      \* queries the debounce callback ran for in this burst
  alertOpen,       \* an alert() dialog is open and blocks the thread
  probe            \* last direct call of StoreSpec / RenderSpec (idle in Spec)

vars ==
  << booted, storage, apiKey, abortController, calls, apiKeyInput, searchInput,
     settingsOpen, focused, busy, grid, gridBy, timers, debounceTimer, nInputs,
     sinceInput, burst, burstFires, alertOpen, probe >>

domVars == << apiKeyInput, searchInput, settingsOpen, focused >>
keyVars == << storage, apiKey >>
fetchVars == << abortController, calls, busy >>
gridVars == << grid, gridBy >>
timerVars == << timers, debounceTimer, nInputs, sinceInput, burst, burstFires >>

\* no direct call has been made
Idle ==
  [op |-> "none", key |-> <<>>, ok |-> TRUE, read |-> TRUE, results |-> <<>>,
   before |-> [kind |-> "initial", cards |-> <<>>, msg |-> <<>>]]

Init ==
  /\ booted = FALSE
  /\ storage \in {None} \cup {Some(k) : k \in StoredKeys}
  /\ apiKey = None
  /\ abortController = 0
  /\ calls = <<>>
  /\ apiKeyInput = <<>>
  /\ searchInput = <<>>
  /\ settingsOpen = FALSE
  /\ focused = "body"
  /\ busy = "unset"
  /\ grid = [kind |-> "initial", cards |-> <<>>, msg |-> <<>>]
  /\ gridBy = 0
  /\ timers = {}
  /\ debounceTimer = 0
  /\ nInputs = 0
  /\ sinceInput = 0
  /\ burst = 0
  /\ burstFires = <<>>
  /\ alertOpen = FALSE
  /\ probe = Idle

\* ------------------------------------------------------------- rendering
imageBaseUrl == "https://image.tmdb.org/t/p/w500"

\* the .movies section that setBusy looks up is part of the page
SectionPresent == TRUE

\* setBusy: the aria-busy attribute after setBusy(isBusy)
setBusy(isBusy, old) ==
  IF ~SectionPresent THEN old
  ELSE IF isBusy THEN "true" ELSE "false"

\* makeCard: the card built for one record; rnd is the Math.random suffix
makeCard(movie, rnd) ==
  LET posterPath == IF Truthy(movie.poster_path)
                    THEN <<imageBaseUrl, movie.poster_path>> ELSE <<>>
      title == IF Truthy(movie.title) THEN movie.title
               ELSE IF Truthy(movie.name) THEN movie.name ELSE "Untitled"
      uniqueIdBase == IF Truthy(movie.id) THEN <<movie.id>>
                      ELSE <<title, "-", rnd>>
  IN [ id     |-> <<"movieCard-">> \o uniqueIdBase,
       title  |-> title,
       poster |-> IF posterPath # <<>>
                  THEN [tag |-> "img", src |-> posterPath]
                  ELSE [tag |-> "div", src |-> <<>>] ]

\* a grid that keeps its children when innerHTML is assigned ''
clearGrid_Keep(g) == [g EXCEPT !.kind = "cards"]

\* el.moviesGrid.innerHTML = '': the grid without children
clearGrid(g) == [kind |-> "cards", cards |-> <<>>, msg |-> <<>>]

\* renderMovies: the grid g after rendering the list results into it
renderMovies(g, results, rnds) ==
  LET cleared == clearGrid(g)
      frag == [i \in 1..Len(results) |-> makeCard(results[i], rnds[i])]
  IN [cleared EXCEPT !.cards = cleared.cards \o frag]

\* the errors the fetch path can raise
MissingKeyError ==
  [name |-> "Error", message |-> <<"Missing TMDb API key. Click the gear icon to set it.">>]

\* a failure message that leaves the status out
RequestFailedError_NoStatus(status) ==
  [name |-> "Error", message |-> <<"Request failed">>]

RequestFailedError(status) ==
  [name |-> "Error", message |-> <<"Request failed (", ToString(status), ")">>]
AbortError == [name |-> "AbortError", message |-> <<"The operation was aborted.">>]
NetworkError == [name |-> "TypeError", message |-> <<"Failed to fetch">>]
JsonSyntaxError == [name |-> "SyntaxError", message |-> <<"Unexpected token">>]
NullDataError ==
  [name |-> "TypeError", message |-> <<"Cannot read properties of null">>]

\* notifyError: the grid after showing err
notifyError(err) ==
  [ kind  |-> "error",
    cards |-> <<>>,
    msg   |-> IF err.message # <<>> THEN err.message
              ELSE <<"Something went wrong">> ]

\* ----------------------------------------------------------------- fetch
buildSearchUrl(query, key) ==
  [endpoint |-> "search/movie", api_key |-> key,
   query |-> encodeURIComponent(Trim(query)), page |-> 1]

buildTrendingUrl(key) ==
  [endpoint |-> "trending/movie/week", api_key |-> key, query |-> <<>>, page |-> 0]

\* positions of an invocation: its awaited promise was rejected and the
\* continuation is a pending microtask ("rejected", "aborted"), it awaits
\* fetch() ("fetching") or res.json() ("reading"), or it has returned
Pending == {"rejected", "aborted"}
InFlight == {"fetching", "reading"}

NewCall(fn, query, url) ==
  [fn |-> fn, query |-> query, url |-> url, st |-> "new"]

\* an invocation that has returned: its arguments and locals are gone
Returned ==
  [fn |-> "", query |-> <<>>, st |-> "done",
   url |-> [endpoint |-> "", api_key |-> None, query |-> <<>>, page |-> 0]]

\* an abort that no longer reaches a response whose body is being read
AbortPrevious_HeadersOnly(cs, ac) ==
  IF ac # 0 /\ cs[ac].st = "fetching"
  THEN [cs EXCEPT ![ac].st = "aborted"]
  ELSE cs

\* a fetchJson that never aborts the tracked controller
AbortPrevious_NoAbort(cs, ac) == cs

\* fetchJson line 123: abort the tracked controller
AbortPrevious(cs, ac) ==
  IF ac # 0 /\ cs[ac].st \in InFlight
  THEN [cs EXCEPT ![ac].st = "aborted"]
  ELSE cs

\* a fetchJson without the credential check
fetchJsonBegin_NoKeyCheck(cs, ac, key, c) ==
  [calls |-> Append(AbortPrevious(cs, ac), [c EXCEPT !.st = "fetching"]),
   abortController |-> Len(cs) + 1]

\* fetchJson up to its first await, for the invocation c
fetchJsonBegin(cs, ac, key, c) ==
  IF ~key.some \/ key.v = <<>>
  THEN [calls |-> Append(cs, [c EXCEPT !.st = "rejected"]), abortController |-> ac]
  ELSE [calls |-> Append(AbortPrevious(cs, ac), [c EXCEPT !.st = "fetching"]),
        abortController |-> Len(cs) + 1]

\* searchMovies up to its first await
searchMovies(query, key) ==
  /\ Len(calls) < MaxCalls
  /\ busy' = setBusy(TRUE, busy)
  /\ LET r == fetchJsonBegin(calls, abortController, key,
                             NewCall("search", query, buildSearchUrl(query, key)))
     IN /\ calls' = r.calls
        /\ abortController' = r.abortController

\* loadTrending up to its first await
loadTrending(key) ==
  /\ Len(calls) < MaxCalls
  /\ busy' = setBusy(TRUE, busy)
  /\ LET r == fetchJsonBegin(calls, abortController, key,
                             NewCall("trending", <<>>, buildTrendingUrl(key)))
     IN /\ calls' = r.calls
        /\ abortController' = r.abortController

\* a catch without the finally block
CatchFinally_NoFinally(i, err) ==
  /\ grid' = notifyError(err)
  /\ gridBy' = i
  /\ busy' = busy
  /\ calls' = [calls EXCEPT ![i] = Returned]

\* catch + finally of searchMovies / loadTrending for invocation i
CatchFinally(i, err) ==
  /\ grid' = notifyError(err)
  /\ gridBy' = i
  /\ busy' = setBusy(FALSE, busy)
  /\ calls' = [calls EXCEPT ![i] = Returned]

\* no continuation is waiting in the microtask queue
NoMicrotask == \A i \in DOMAIN calls : calls[i].st \notin Pending

\* a task (event handler, timer or network callback) can start
TaskReady == booted /\ NoMicrotask /\ ~alertOpen

\* ------------------------------------------------------- credential store
\* loadApiKey: ok is whether localStorage could be read
loadApiKey(ok) ==
  IF ok
  THEN LET key == storage
           k == IF key.some /\ key.v # <<>> /\ Len(key.v) > MinLoadLen
                THEN key ELSE None
       IN [apiKey |-> k, apiKeyInput |-> IF k.some THEN k.v ELSE apiKeyInput]
  ELSE [apiKey |-> apiKey, apiKeyInput |-> apiKeyInput]

\* a saveApiKey that writes storage but not state.apiKey
saveApiKey_NoMemory(key, ok) ==
  IF ok
  THEN [storage |-> Some(key), apiKey |-> apiKey]
  ELSE [storage |-> storage, apiKey |-> apiKey]

\* a saveApiKey that assigns state.apiKey before the write can fail
saveApiKey_MemoryFirst(key, ok) ==
  IF ok
  THEN [storage |-> Some(key), apiKey |-> Some(key)]
  ELSE [storage |-> storage, apiKey |-> Some(key)]

\* saveApiKey: ok is whether localStorage could be written
saveApiKey(key, ok) ==
  IF ok
  THEN [storage |-> Some(key), apiKey |-> Some(key)]
  ELSE [storage |-> storage, apiKey |-> apiKey]

\* showSettings
showSettings(open) ==
  IF open
  THEN settingsOpen' = TRUE /\ focused' = "apiKeyInput"
  ELSE settingsOpen' = FALSE /\ focused' = focused

\* --------------------------------------------------------------- actions
\* an init() that opens the settings panel whether or not a key was loaded
BootstrapWith_AlwaysSettings(ok) ==
  /\ ~booted
  /\ booted' = TRUE
  /\ LET r == loadApiKey(ok)
     IN /\ apiKey' = r.apiKey
        /\ apiKeyInput' = r.apiKeyInput
        /\ IF r.apiKey.some
           THEN loadTrending(r.apiKey)
           ELSE UNCHANGED fetchVars
  /\ showSettings(TRUE)
  /\ UNCHANGED << storage, searchInput, gridVars, timerVars, alertOpen, probe >>

\* init() when localStorage can (ok) or cannot be read: load the key, wire
\* the events, then trending or settings
BootstrapWith(ok) ==
  /\ ~booted
  /\ booted' = TRUE
  /\ LET r == loadApiKey(ok)
     IN /\ apiKey' = r.apiKey
        /\ apiKeyInput' = r.apiKeyInput
        /\ IF r.apiKey.some
           THEN /\ loadTrending(r.apiKey)
                /\ UNCHANGED << settingsOpen, focused >>
           ELSE /\ showSettings(TRUE)
                /\ UNCHANGED fetchVars
  /\ UNCHANGED << storage, searchInput, gridVars, timerVars, alertOpen, probe >>

\* init()
Bootstrap == \E ok \in BOOLEAN : BootstrapWith(ok)

\* the user dismisses the alert() dialog; the click handler returns
DismissAlert ==
  /\ alertOpen
  /\ alertOpen' = FALSE
  /\ UNCHANGED << booted, keyVars, fetchVars, domVars, gridVars, timerVars, probe >>

\* click on the settings button
OpenSettings ==
  /\ TaskReady
  /\ showSettings(TRUE)
  /\ UNCHANGED << booted, keyVars, fetchVars, apiKeyInput, searchInput, gridVars,
                  timerVars, alertOpen, probe >>

\* click on the close button
CloseSettings ==
  /\ TaskReady
  /\ showSettings(FALSE)
  /\ UNCHANGED << booted, keyVars, fetchVars, apiKeyInput, searchInput, gridVars,
                  timerVars, alertOpen, probe >>

\* click inside the modal: on the backdrop itself or on its content
ModalClick(target) ==
  /\ TaskReady
  /\ IF target = "settingsModal"
     THEN showSettings(FALSE)
     ELSE UNCHANGED << settingsOpen, focused >>
  /\ UNCHANGED << booted, keyVars, fetchVars, apiKeyInput, searchInput, gridVars,
                  timerVars, alertOpen, probe >>

\* the user edits the API key field
TypeApiKey(v) ==
  /\ TaskReady
  /\ apiKeyInput' = v
  /\ UNCHANGED << booted, keyVars, fetchVars, searchInput, settingsOpen, focused,
                  gridVars, timerVars, alertOpen, probe >>

\* click on the save button when localStorage can (ok) or cannot be written
SaveClickWith(ok) ==
  /\ TaskReady
  /\ LET key == Trim(apiKeyInput)
     IN IF Len(key) < MinSaveLen
        THEN /\ alertOpen' = TRUE
             /\ UNCHANGED << keyVars, fetchVars, settingsOpen, focused >>
        ELSE /\ LET r == saveApiKey(key, ok)
                IN /\ storage' = r.storage
                   /\ apiKey' = r.apiKey
                   /\ loadTrending(r.apiKey)
             /\ showSettings(FALSE)
             /\ UNCHANGED alertOpen
  /\ UNCHANGED << booted, apiKeyInput, searchInput, gridVars, timerVars, probe >>

\* click on the save button
SaveClick == \E ok \in BOOLEAN : SaveClickWith(ok)

\* a submit handler that also cancels the pending debounce timer
Submit_ClearsTimer ==
  /\ TaskReady
  /\ LET q == Trim(searchInput)
     IN IF Len(q) = 0
        THEN UNCHANGED fetchVars
        ELSE searchMovies(q, apiKey)
  /\ timers' = { t \in timers : t.id # debounceTimer }
  /\ UNCHANGED << booted, keyVars, domVars, gridVars, debounceTimer, nInputs,
                  sinceInput, burst, burstFires, alertOpen, probe >>

\* a submit handler without the empty-query return
Submit_NoEmptyCheck ==
  /\ TaskReady
  /\ searchMovies(Trim(searchInput), apiKey)
  /\ UNCHANGED << booted, keyVars, domVars, gridVars, timerVars, alertOpen, probe >>

\* submit of the search form
Submit ==
  /\ TaskReady
  /\ LET q == Trim(searchInput)
     IN IF Len(q) = 0
        THEN UNCHANGED fetchVars
        ELSE searchMovies(q, apiKey)
  /\ UNCHANGED << booted, keyVars, domVars, gridVars, timerVars, alertOpen, probe >>

\* -------------------------------------------------------------- debounce
Min(S) == CHOOSE x \in S : \A y \in S : x <= y

\* a clearTimeout that cancels nothing
clearTimeout_Noop(ts, id) == ts

\* clearTimeout
clearTimeout(ts, id) == { t \in ts : t.id # id }

\* setTimeout(callback closing over q, 300)
setTimeout(ts, id, q) ==
  ts \cup { [id |-> id, q |-> q, remaining |-> DebounceDelay] }

\* 'input' event on the search box: the user changed its value to v
InputEvent(v) ==
  /\ TaskReady
  /\ nInputs < MaxInputs
  /\ LET q == Trim(v)
         id == nInputs + 1
         sameBurst == nInputs > 0 /\ sinceInput < DebounceDelay
     IN /\ searchInput' = v
        /\ timers' = setTimeout(clearTimeout(timers, debounceTimer), id, q)
        /\ debounceTimer' = id
        /\ nInputs' = id
        /\ sinceInput' = 0
        /\ burst' = IF sameBurst THEN burst + 1 ELSE 1
        /\ burstFires' = IF sameBurst THEN burstFires ELSE <<>>
  /\ UNCHANGED << booted, keyVars, fetchVars, apiKeyInput, settingsOpen, focused,
                  gridVars, alertOpen, probe >>

\* the debounce callback of timer t runs
TimerFire(t) ==
  /\ TaskReady
  /\ t \in timers
  /\ t.remaining = 0
  /\ timers' = timers \ {t}
  /\ burstFires' = Append(burstFires, t.q)
  /\ IF Len(t.q) >= MinLiveLen THEN searchMovies(t.q, apiKey)
     ELSE IF Len(t.q) = 0 THEN loadTrending(apiKey)
     ELSE UNCHANGED fetchVars
  /\ UNCHANGED << booted, keyVars, domVars, gridVars, debounceTimer, nInputs,
                  sinceInput, burst, alertOpen, probe >>

\* time passes while a timer is pending, at most until the next one is due
Tick ==
  /\ TaskReady
  /\ timers # {}
  /\ \A t \in timers : t.remaining > 0
  /\ LET d == Min({TickMs} \cup { t.remaining : t \in timers })
     IN /\ timers' = { [t EXCEPT !.remaining = t.remaining - d] : t \in timers }
        /\ sinceInput' = Min({sinceInput + d, DebounceDelay})
  /\ UNCHANGED << booted, keyVars, fetchVars, domVars, gridVars, debounceTimer,
                  nInputs, burst, burstFires, alertOpen, probe >>

\* --------------------------------------------------------------- network
\* fetch() of invocation i resolves with a response of the given status
FetchResolves(i, status) ==
  /\ TaskReady
  /\ i \in DOMAIN calls
  /\ calls[i].st = "fetching"
  /\ IF ~ResponseOk(status)
     THEN CatchFinally(i, RequestFailedError(status))
     ELSE /\ calls' = [calls EXCEPT ![i].st = "reading"]
          /\ UNCHANGED << busy, gridVars >>
  /\ UNCHANGED << booted, keyVars, abortController, domVars, timerVars, alertOpen, probe >>

\* fetch() or the body read of invocation i fails on the network
FetchRejects(i) ==
  /\ TaskReady
  /\ i \in DOMAIN calls
  /\ calls[i].st \in InFlight
  /\ CatchFinally(i, NetworkError)
  /\ UNCHANGED << booted, keyVars, abortController, domVars, timerVars, alertOpen, probe >>

\* the list handed to renderMovies for the parsed body data
ResultsOf(data) ==
  IF data.t = "object" /\ data.results.t = "list" THEN data.results.items ELSE <<>>

\* res.json() of invocation i settles for the given body
JsonSettles(i, body) ==
  /\ TaskReady
  /\ i \in DOMAIN calls
  /\ calls[i].st = "reading"
  /\ IF body.t = "unparsable" THEN CatchFinally(i, JsonSyntaxError)
     ELSE IF body.t = "null" THEN CatchFinally(i, NullDataError)
     ELSE /\ \E rnds \in [1..Len(ResultsOf(body)) -> RandSuffixes] :
               grid' = renderMovies(grid, ResultsOf(body), rnds)
          /\ gridBy' = i
          /\ busy' = setBusy(FALSE, busy)
          /\ calls' = [calls EXCEPT ![i] = Returned]
  /\ UNCHANGED << booted, keyVars, abortController, domVars, timerVars, alertOpen, probe >>

\* the continuation of an invocation whose awaited promise was rejected
\* synchronously (missing key, abort) runs from the microtask queue
Microtask(i) ==
  /\ i \in DOMAIN calls
  /\ calls[i].st \in Pending
  /\ CatchFinally(i, IF calls[i].st = "rejected" THEN MissingKeyError ELSE AbortError)
  /\ UNCHANGED << booted, keyVars, abortController, domVars, timerVars, alertOpen, probe >>

\* ---------------------------------------------------------- specification
Next ==
  \/ Bootstrap
  \/ OpenSettings
  \/ CloseSettings
  \/ \E target \in {"settingsModal", "content"} : ModalClick(target)
  \/ \E v \in KeyInputs : TypeApiKey(v)
  \/ SaveClick
  \/ DismissAlert
  \/ Submit
  \/ \E v \in QueryInputs : InputEvent(v)
  \/ \E t \in timers : TimerFire(t)
  \/ Tick
  \/ \E i \in 1..MaxCalls, status \in StatusCodes : FetchResolves(i, status)
  \/ \E i \in 1..MaxCalls : FetchRejects(i)
  \/ \E i \in 1..MaxCalls, body \in Bodies : JsonSettles(i, body)
  \/ \E i \in 1..MaxCalls : Microtask(i)

Spec == Init /\ [][Next]_vars

\* ------------------------------------------- the credential store alone
\* what localStorage may hold for the key when the page is opened
StoredValues ==
  { <<>>, Rep(1, "k"), Rep(5, "k"), Rep(6, "k"), Rep(9, "k"), Rep(12, "s") }

\* keys handed to saveApiKey: trimmed strings of at least 10 characters
SavedKeys ==
  { Rep(10, "k"), Rep(11, "k"), Rep(5, "a") \o <<" ">> \o Rep(5, "b") }

StoreInit ==
  /\ booted = FALSE
  /\ storage \in {None} \cup {Some(k) : k \in StoredValues}
  /\ apiKey = None
  /\ abortController = 0
  /\ calls = <<>>
  /\ apiKeyInput = <<>>
  /\ searchInput = <<>>
  /\ settingsOpen = FALSE
  /\ focused = "body"
  /\ busy = "unset"
  /\ grid = [kind |-> "initial", cards |-> <<>>, msg |-> <<>>]
  /\ gridBy = 0
  /\ timers = {}
  /\ debounceTimer = 0
  /\ nInputs = 0
  /\ sinceInput = 0
  /\ burst = 0
  /\ burstFires = <<>>
  /\ alertOpen = FALSE
  /\ probe = Idle

\* saveApiKey(key) called directly; ok is whether setItem succeeds
StoreSave(key, ok) ==
  /\ LET r == saveApiKey(key, ok)
     IN /\ storage' = r.storage
        /\ apiKey' = r.apiKey
  /\ probe' = [Idle EXCEPT !.op = "save", !.key = key, !.ok = ok]
  /\ UNCHANGED << booted, fetchVars, domVars, gridVars, timerVars, alertOpen >>

\* loadApiKey() called directly; ok is whether getItem succeeds
StoreLoad(ok) ==
  /\ LET r == loadApiKey(ok)
     IN /\ apiKey' = r.apiKey
        /\ apiKeyInput' = r.apiKeyInput
  /\ probe' = IF probe.op = "save"
               THEN [probe EXCEPT !.op = "save-load", !.read = ok]
               ELSE [Idle EXCEPT !.op = "load", !.read = ok]
  /\ UNCHANGED << booted, storage, fetchVars, searchInput, settingsOpen, focused,
                  gridVars, timerVars, alertOpen >>

StoreNext ==
  \/ \E key \in SavedKeys, ok \in BOOLEAN : StoreSave(key, ok)
  \/ \E ok \in BOOLEAN : StoreLoad(ok)

StoreSpec == StoreInit /\ [][StoreNext]_vars

\* ------------------------------------------------------ rendering alone
\* records handed to renderMovies: poster path present, null, empty, absent
MovieC == [id |-> "9", title |-> "", name |-> "Arcane", poster_path |-> ""]
MovieD == [id |-> "absent", title |-> "Heat", name |-> "absent", poster_path |-> "absent"]
Movies == { MovieA, MovieB, MovieC, MovieD }

\* the lists of at most n records
RECURSIVE ResultLists(_)
ResultLists(n) ==
  IF n = 0 THEN { <<>> }
  ELSE LET shorter == ResultLists(n - 1)
       IN shorter \cup { Append(l, m) : l \in { x \in shorter : Len(x) = n - 1 }, m \in Movies }

\* errors handed to notifyError: with a message and without
RenderErrors ==
  { MissingKeyError, NetworkError, [name |-> "Error", message |-> <<>>] }

RenderInit ==
  /\ booted = FALSE
  /\ storage = None
  /\ apiKey = None
  /\ abortController = 0
  /\ calls = <<>>
  /\ apiKeyInput = <<>>
  /\ searchInput = <<>>
  /\ settingsOpen = FALSE
  /\ focused = "body"
  /\ busy = "unset"
  /\ grid = [kind |-> "initial", cards |-> <<>>, msg |-> <<>>]
  /\ gridBy = 0
  /\ timers = {}
  /\ debounceTimer = 0
  /\ nInputs = 0
  /\ sinceInput = 0
  /\ burst = 0
  /\ burstFires = <<>>
  /\ alertOpen = FALSE
  /\ probe = Idle

\* renderMovies(results) called directly
RenderStep(results) ==
  /\ \E rnds \in [1..Len(results) -> RandSuffixes] :
       grid' = renderMovies(grid, results, rnds)
  /\ probe' = [Idle EXCEPT !.op = "render", !.results = results, !.before = grid]
  /\ UNCHANGED << booted, keyVars, fetchVars, domVars, gridBy, timerVars, alertOpen >>

\* notifyError(err) called directly
NotifyStep(err) ==
  /\ grid' = notifyError(err)
  /\ probe' = [Idle EXCEPT !.op = "notify", !.before = grid]
  /\ UNCHANGED << booted, keyVars, fetchVars, domVars, gridBy, timerVars, alertOpen >>

RenderNext ==
  \/ \E results \in ResultLists(MaxResults) : RenderStep(results)
  \/ \E err \in RenderErrors : NotifyStep(err)

RenderSpec == RenderInit /\ [][RenderNext]_vars

\* ================================================================ claims
InFlightCalls == { i \in DOMAIN calls : calls[i].st \in InFlight }

\* invocation i returns in this step
Returns(i) == i \in DOMAIN calls /\ calls[i].st # "done" /\ calls'[i].st = "done"

\* this step starts a new invocation of searchMovies / loadTrending
Invoked == Len(calls') = Len(calls) + 1

\* the debounce callback of timer t runs in this step
Fired(t) == t \in timers /\ t.remaining = 0 /\ timers' = timers \ {t}

EmptyGrid == [kind |-> "cards", cards |-> <<>>, msg |-> <<>>]

\* C1: the resolution of a superseded (aborted) request never updates the
\* results container: when an aborted invocation returns, the grid is
\* exactly what it was before.
C1_SupersededNeverUpdates ==
  [][\A i \in DOMAIN calls :
       (calls[i].st = "aborted" /\ Returns(i)) => grid' = grid]_vars

\* C2: at most one request is in flight in every reachable state, and a step
\* that dispatches a new request leaves no earlier request in flight and
\* tracks the new one.
C2_AtMostOneInFlight ==
  /\ [](Cardinality(InFlightCalls) <= 1)
  /\ [][(Invoked /\ calls'[Len(calls')].st = "fetching")
          => /\ \A i \in DOMAIN calls : calls'[i].st \notin InFlight
             /\ abortController' = Len(calls')]_vars

C2_Witness ==
  /\ Len(calls) = 2
  /\ calls[1].st = "aborted"
  /\ calls[2].st = "fetching"

\* C3: every step in which an invocation of searchMovies / loadTrending
\* returns (success, failure, missing key or cancellation) leaves the busy
\* flag false, and whenever every invocation has returned the flag is false.
C3_BusyCleared ==
  /\ []((calls # <<>> /\ \A i \in DOMAIN calls : calls[i].st = "done")
          => busy = "false")
  /\ [][\A i \in DOMAIN calls : Returns(i) => busy' = "false"]_vars

C3_Witness ==
  /\ Len(calls) = 2
  /\ \A i \in DOMAIN calls : calls[i].st = "done"
  /\ busy = "false"
  /\ grid.kind = "cards"

\* C4: within one burst of 'input' events the debounce callback runs at most
\* once, for the trimmed value of the last event, exactly DebounceDelay after
\* that event; a pending timer is always the one set by the last event.
C4_DebounceOnce ==
  /\ [](/\ Cardinality(timers) <= 1
        /\ Len(burstFires) <= 1
        /\ \A t \in timers : /\ t.id = debounceTimer
                             /\ t.q = Trim(searchInput)
                             /\ t.remaining = DebounceDelay - sinceInput
        /\ burstFires # <<>> => (burstFires[1] = Trim(searchInput) /\ timers = {}))
  /\ [][\A t \in timers :
          Fired(t) => (sinceInput = 300 /\ t.q = Trim(searchInput))]_vars

C4_Witness ==
  /\ burst = 2
  /\ burstFires = << <<"a", "b", "c">> >>
  /\ timers = {}
  /\ calls # <<>>
  /\ calls[Len(calls)].fn = "search"
  /\ calls[Len(calls)].query = <<"a", "b", "c">>

\* C5: when the debounce callback runs, a trimmed query of length >= 3
\* starts exactly one search for it, an empty one starts exactly one
\* trending load, and one of length 1 or 2 changes nothing: no invocation,
\* no cancellation, busy flag and grid unchanged.
C5_FireByLength ==
  [][\A t \in timers :
       Fired(t) =>
         /\ Len(t.q) >= 3 =>
              /\ Invoked
              /\ calls'[Len(calls')].fn = "search"
              /\ calls'[Len(calls')].query = t.q
         /\ Len(t.q) = 0 =>
              /\ Invoked
              /\ calls'[Len(calls')].fn = "trending"
         /\ Len(t.q) \in {1, 2} =>
              UNCHANGED << calls, abortController, busy, grid >>]_vars

C5_Witness ==
  /\ burstFires # <<>>
  /\ Len(burstFires[1]) = 2
  /\ timers = {}
  /\ Cardinality(InFlightCalls) = 1

\* C6: a submit with an empty trimmed query changes nothing; any other
\* submit starts, in the same step, one search for the trimmed query,
\* whatever its length, and leaves the debounce timers alone.
C6_SubmitImmediate ==
  [][Submit =>
       IF Trim(searchInput) = <<>>
       THEN UNCHANGED << calls, abortController, busy, grid, timers >>
       ELSE /\ Invoked
            /\ calls'[Len(calls')].fn = "search"
            /\ calls'[Len(calls')].query = Trim(searchInput)
            /\ calls'[Len(calls')].st \in {"fetching", "rejected"}
            /\ timers' = timers]_vars

C6_Witness ==
  \E i \in DOMAIN calls :
    /\ calls[i].fn = "search"
    /\ Len(calls[i].query) \in {1, 2}
    /\ calls[i].st = "fetching"

\* C7: when res.json() settles for a 2xx response whose body is anything but
\* an object with a list-valued results field, the grid ends up with no
\* cards and no error message.
C7_MalformedIsEmpty ==
  [][\A i \in DOMAIN calls, body \in Bodies :
       (JsonSettles(i, body) /\ ~(body.t = "object" /\ body.results.t = "list"))
         => grid' = EmptyGrid]_vars

\* C8: when the request in flight receives a status outside 200..299, the
\* grid holds no cards and shows a message containing that status.
C8_StatusSurfaced ==
  [][\A i \in DOMAIN calls, s \in StatusCodes :
       (FetchResolves(i, s) /\ (s < 200 \/ s > 299))
         => /\ grid'.kind = "error"
            /\ grid'.cards = <<>>
            /\ \E k \in DOMAIN grid'.msg : grid'.msg[k] = ToString(s)
            /\ gridBy' = i]_vars

C8_Witness ==
  /\ grid.kind = "error"
  /\ \E k \in DOMAIN grid.msg : grid.msg[k] = "401"
  /\ gridBy = 2
  /\ calls[2].st = "done"

\* C9: an invocation started while no credential is held dispatches no
\* request and leaves the tracked request handle and every earlier
\* invocation untouched; when it returns, the grid shows the
\* missing-credential message and the busy flag is false.
C9_MissingCredential ==
  [][/\ (Invoked /\ ~apiKey'.some)
          => /\ calls'[Len(calls')].st = "rejected"
             /\ abortController' = abortController
             /\ \A i \in DOMAIN calls : calls'[i] = calls[i]
     /\ \A i \in DOMAIN calls :
          (calls[i].st = "rejected" /\ Returns(i))
            => /\ grid' = [kind |-> "error", cards |-> <<>>,
                           msg |-> <<"Missing TMDb API key. Click the gear icon to set it.">>]
               /\ busy' = "false"
               /\ InFlightCalls = {}]_vars

C9_Witness ==
  /\ ~apiKey.some
  /\ grid.kind = "error"
  /\ grid.msg = <<"Missing TMDb API key. Click the gear icon to set it.">>
  /\ busy = "false"
  /\ gridBy = 2
  /\ abortController = 0

\* C10: a save click while the key field holds fewer than 10 characters
\* shows the alert and changes nothing else: panel, stored and in-memory
\* credential, field content, invocations, busy flag and grid are unchanged.
C10_ShortKeyRejected ==
  [][(SaveClick /\ Len(apiKeyInput) < 10)
       => /\ alertOpen'
          /\ UNCHANGED << settingsOpen, storage, apiKey, apiKeyInput, calls,
                          abortController, busy, grid, timers >>]_vars

C10_Witness ==
  /\ alertOpen
  /\ settingsOpen
  /\ Len(apiKeyInput) = 6
  /\ apiKey = Some(apiKeyInput)

\* C11 as stated: a save click with at least 10 characters in the key field
\* persists the credential, makes it the in-memory credential, closes the
\* panel and starts exactly one trending load that uses it.
C11_LongKeySaved ==
  [][(SaveClick /\ Len(apiKeyInput) >= 10)
       => /\ storage' = Some(Trim(apiKeyInput))
          /\ apiKey' = Some(Trim(apiKeyInput))
          /\ ~settingsOpen'
          /\ Invoked
          /\ calls'[Len(calls')].fn = "trending"
          /\ calls'[Len(calls')].url.api_key = Some(Trim(apiKeyInput))]_vars

\* C11 amended: a save click whose trimmed key has at least 10 characters
\* closes the panel and starts exactly one trending load that uses the
\* in-memory credential; the trimmed key becomes both the stored and the
\* in-memory credential, unless the storage write fails, which leaves both
\* as they were.
C11_TrimmedKeySaved ==
  [][(SaveClick /\ Len(Trim(apiKeyInput)) >= 10)
       => /\ ~settingsOpen'
          /\ Invoked
          /\ calls'[Len(calls')].fn = "trending"
          /\ calls'[Len(calls')].url.api_key = apiKey'
          /\ \A i \in DOMAIN calls : calls'[i].st \notin InFlight
          /\ \/ storage' = Some(Trim(apiKeyInput)) /\ apiKey' = Some(Trim(apiKeyInput))
             \/ storage' = storage /\ apiKey' = apiKey
          /\ UNCHANGED << apiKeyInput, alertOpen >>]_vars

C11_Witness ==
  /\ apiKeyInput = <<" ">> \o Rep(10, "k")
  /\ storage = Some(Rep(10, "k"))
  /\ apiKey = Some(Rep(10, "k"))
  /\ ~settingsOpen
  /\ calls # <<>>
  /\ calls[Len(calls)].fn = "trending"
  /\ calls[Len(calls)].st = "fetching"
  /\ calls[Len(calls)].url.api_key = Some(Rep(10, "k"))

C13_ShortStoredRejected ==
  probe.op \in {"load", "save-load"}
    => /\ (storage.some /\ Len(storage.v) <= 5) => apiKey = None
       /\ (probe.read /\ storage.some /\ Len(storage.v) > 5) => apiKey = storage
       /\ (probe.read /\ ~storage.some) => apiKey = None
       /\ apiKey.some => Len(apiKey.v) > 5

C13_Witness ==
  /\ probe.op = "load"
  /\ probe.read
  /\ storage = Some(Rep(5, "k"))
  /\ apiKey = None
  /\ apiKeyInput = <<>>

\* C14: startup does exactly one of two things after loading the credential:
\* with a credential present it issues a trending load at once and leaves the
\* settings panel closed; otherwise it opens the settings panel and issues no
\* request. Nothing happens before startup, and startup runs once.
C14_StartupBranch ==
  [][/\ ~booted
        => /\ booted'
           /\ calls = <<>> /\ ~settingsOpen /\ apiKey = None
           /\ IF apiKey'.some
              THEN /\ apiKey' = storage
                   /\ Len(calls') = 1
                   /\ calls'[1].fn = "trending"
                   /\ calls'[1].st = "fetching"
                   /\ calls'[1].url.api_key = apiKey'
                   /\ busy' = "true"
                   /\ ~settingsOpen'
              ELSE /\ settingsOpen'
                   /\ focused' = "apiKeyInput"
                   /\ calls' = <<>>
                   /\ busy' = busy
     /\ booted => booted']_vars

C14_Witness ==
  /\ booted
  /\ apiKey = Some(Rep(6, "k"))
  /\ ~settingsOpen
  /\ Len(calls) = 1
  /\ calls[1].fn = "trending"
  /\ calls[1].st = "fetching"
  /\ apiKeyInput = Rep(6, "k")

\* C15: a storage access failure never stops the caller. When the read fails
\* at startup, the in-memory credential is absent and startup goes on as with
\* nothing stored (settings opened, no request); when the write fails on a
\* save click, the stored and the in-memory credential are what they were
\* and the handler goes on (panel closed, trending load invoked).
C15_StorageFailureSwallowed ==
  [][/\ BootstrapWith(FALSE)
        => /\ apiKey' = None
           /\ booted'
           /\ settingsOpen'
           /\ calls' = calls
           /\ UNCHANGED << storage, apiKeyInput, grid, alertOpen >>
     /\ (SaveClickWith(FALSE) /\ Len(Trim(apiKeyInput)) >= MinSaveLen)
        => /\ apiKey' = apiKey
           /\ storage' = storage
           /\ ~settingsOpen'
           /\ Invoked
           /\ calls'[Len(calls')].fn = "trending"
           /\ calls'[Len(calls')].url.api_key = apiKey
           /\ UNCHANGED << grid, alertOpen >>]_vars

C15_Witness ==
  /\ booted
  /\ storage = Some(Rep(6, "k"))
  /\ apiKey = None
  /\ apiKeyInput = <<" ">> \o Rep(10, "k")
  /\ ~settingsOpen
  /\ nInputs = 0
  /\ Len(calls) = 1
  /\ calls[1].fn = "trending"
  /\ calls[1].st = "rejected"

\* C16: in every reachable state in which a dispatched, non-cancelled request
\* is still awaiting its response, the busy flag of the results region is
\* true; the completion of a superseded request does not clear it.
C16_BusyWhileInFlight ==
  InFlightCalls # {} => busy = "true"

\* C17: once every issued request has settled, the results container holds
\* what the most recently issued request wrote (cards or error message), and
\* a request that renders cards is the most recently issued one, never a
\* superseded one.
C17_LastRequestWins ==
  [][/\ (calls' # <<>> /\ \A i \in DOMAIN calls' : calls'[i].st = "done")
        => gridBy' = Len(calls')
     /\ \A i \in DOMAIN calls :
          (Returns(i) /\ calls[i].st = "reading" /\ grid'.kind = "cards")
            => /\ i = Len(calls)
               /\ i = abortController
               /\ gridBy' = i]_vars

C17_Witness ==
  /\ Len(calls) = 2
  /\ \A i \in DOMAIN calls : calls[i].st = "done"
  /\ gridBy = 2
  /\ grid.kind = "cards"
  /\ Len(grid.cards) = 2
  /\ busy = "false"

\* C18: a pending debounce timer goes away only by firing or by a later
\* 'input' event; every step that is neither of these nor the passing of
\* time (a form submit, a save click, the settings actions, a response)
\* leaves it pending. So a timer for a query of at least 3 characters still fires
\* after a submit, and with the submit's request in flight it starts a second
\* search for the typed query and cancels that request.
C18_OnlyInputCancels ==
  [][/\ \A t \in timers :
          (\A u \in timers' : u.id # t.id)
            => (Fired(t) \/ nInputs' = nInputs + 1)
     /\ (nInputs' = nInputs /\ sinceInput' = sinceInput /\ \A t \in timers : ~Fired(t))
          => UNCHANGED << timers, debounceTimer >>
     /\ (Submit \/ SaveClick)
          => (nInputs' = nInputs /\ UNCHANGED << timers, debounceTimer >>)
     /\ \A t \in timers :
          (/\ Fired(t)
           /\ Len(t.q) >= 3
           /\ abortController # 0
           /\ calls[abortController].st \in InFlight)
            => /\ Invoked
               /\ calls'[abortController].st = "aborted"
               /\ calls'[Len(calls')].fn = "search"
               /\ calls'[Len(calls')].query = t.q
               /\ calls'[Len(calls')].st = "fetching"
               /\ abortController' = Len(calls')]_vars

C18_Witness ==
  /\ nInputs = 1
  /\ searchInput = <<"a", "b", "c">>
  /\ timers = {}
  /\ burstFires = << <<"a", "b", "c">> >>
  /\ Len(calls) = 3
  /\ calls[2].fn = "search"
  /\ calls[2].query = <<"a", "b", "c">>
  /\ calls[2].st = "aborted"
  /\ calls[3].fn = "search"
  /\ calls[3].query = <<"a", "b", "c">>
  /\ calls[3].st = "fetching"
  /\ abortController = 3

\* C19: renderMovies(results) replaces the whole content of the results
\* container: afterwards it holds one card per record, in the order of the
\* list, and neither a card of an earlier render nor an error message.
C19_RenderReplaces ==
  probe.op = "render"
    => /\ grid.kind = "cards"
       /\ grid.msg = <<>>
       /\ Len(grid.cards) = Len(probe.results)
       /\ \A i \in DOMAIN grid.cards :
            \E rnd \in RandSuffixes : grid.cards[i] = makeCard(probe.results[i], rnd)

C19_Witness ==
  /\ probe.op = "render"
  /\ Len(probe.before.cards) = 2
  /\ probe.results = << MovieB, MovieA >>
  /\ Len(grid.cards) = 2
  /\ grid.cards[1].title = "Untitled"
  /\ grid.cards[2].title = "Dune"

\* C20: the card of a record whose poster path is absent, null or empty
\* holds the placeholder element and no image reference; the card of any
\* other record holds an image whose source is the fixed base URL followed
\* by the poster path.
C20_PosterOrPlaceholder ==
  probe.op = "render"
    => \A i \in DOMAIN probe.results :
         /\ i \in DOMAIN grid.cards
         /\ LET path == probe.results[i].poster_path
                poster == grid.cards[i].poster
            IN IF path \in {"absent", Null, ""}
               THEN poster.tag = "div" /\ poster.src = <<>>
               ELSE /\ poster.tag = "img"
                    /\ poster.src = << "https://image.tmdb.org/t/p/w500", path >>

C20_Witness ==
  /\ probe.op = "render"
  /\ probe.results = << MovieC, MovieA >>
  /\ grid.cards[1].poster = [tag |-> "div", src |-> <<>>]
  /\ grid.cards[2].poster = [tag |-> "img", src |-> << imageBaseUrl, "/d.jpg" >>]

====
